---- MODULE Spec2Model ----
(***************************************************************************)
(* A model of henchman/plotting.py: the data each plotting function hands  *)
(* to its ColumnDataSource (pie wedges, histogram buckets, time buckets,   *)
(* scatter pairs).  Columns are pandas Series, modelled as sequences.      *)
(* Floating point numbers are modelled as exact rationals <<n, d>>;        *)
(* angles are rational multiples of pi.  Every function is modelled as it  *)
(* is called through show(), i.e. with a figargs dictionary supplied.      *)
(***************************************************************************)
EXTENDS Integers, Sequences, FiniteSets, TLC

VARIABLES
    col,    \* the first column argument (col, col1, col_1)
    col2,   \* the second column argument (label, col2, col_2); <<>> if unused
    col3,   \* the third column argument (label of a scatter plot); <<>> if unused
    call,   \* the last call: function name and its scalar arguments
    out     \* what that call produced: a data source, or the error raised

vars == <<col, col2, col3, call, out>>

(***************************************************************************)
(* Bounds of the model.                                                    *)
(***************************************************************************)
MaxLen == 3      \* longest column of a call that takes one column
MaxRows == 2     \* longest column of a call that takes two columns
MaxVal == 3      \* column values are 1..MaxVal
MaxMerge == 3    \* largest mergepast
MaxDrop == 3     \* largest drop_n
MaxBins == 3     \* largest n_bins
MaxStamp == 2    \* timestamps are 1..MaxStamp

(***************************************************************************)
(* Python values.                                                          *)
(***************************************************************************)
\* None, and an optional integer argument holding k
None == <<>>
Some(k) == <<k>>
Val(x) == x[1]

\* A missing value of a pandas column (NaN); real values are 1..MaxVal.
NaN == 0

Max2(a, b) == IF a >= b THEN a ELSE b
Min2(a, b) == IF a <= b THEN a ELSE b
Abs(a) == IF a >= 0 THEN a ELSE 0 - a

\* s[n:] with Python's slice semantics (negative n counts from the end)
SliceFrom(s, n) ==
    LET start == IF n >= 0 THEN Min2(n, Len(s)) ELSE Max2(Len(s) + n, 0)
    IN  SubSeq(s, start + 1, Len(s))

\* s[:n] with Python's slice semantics
SliceTo(s, n) ==
    LET stop == IF n >= 0 THEN Min2(n, Len(s)) ELSE Max2(Len(s) + n, 0)
    IN  SubSeq(s, 1, stop)

(***************************************************************************)
(* Exact rationals <<n, d>>, d > 0, in lowest terms.                       *)
(***************************************************************************)
RECURSIVE Gcd(_, _)
Gcd(a, b) == IF b = 0 THEN a ELSE Gcd(b, a % b)

Rat(n, d) ==
    LET s == IF d < 0 THEN 0 - 1 ELSE 1
        g == Gcd(Abs(n), Abs(d))
    IN  <<(s * n) \div g, (s * d) \div g>>

Int2Rat(k) == <<k, 1>>
RatAdd(p, q) == Rat(p[1] * q[2] + q[1] * p[2], p[2] * q[2])
RatSub(p, q) == Rat(p[1] * q[2] - q[1] * p[2], p[2] * q[2])
RatMul(p, q) == Rat(p[1] * q[1], p[2] * q[2])
RatDiv(p, q) == Rat(p[1] * q[2], p[2] * q[1])
RatLt(p, q) == p[1] * q[2] < q[1] * p[2]
RatLe(p, q) == p[1] * q[2] <= q[1] * p[2]
\* floor of a rational
RatFloor(p) == p[1] \div p[2]

RECURSIVE RatSum(_)
RatSum(s) == IF s = <<>> THEN Int2Rat(0) ELSE RatAdd(Head(s), RatSum(Tail(s)))

RECURSIVE IntSum(_)
IntSum(s) == IF s = <<>> THEN 0 ELSE Head(s) + IntSum(Tail(s))

\* the sequence of field f of the rows of a table
Column(rows, f) == [i \in 1..Len(rows) |-> rows[i][f]]

\* the elements of a finite set of integers, ascending
RECURSIVE Ascending(_)
Ascending(S) ==
    IF S = {} THEN <<>>
    ELSE LET m == CHOOSE x \in S : \A y \in S : x <= y
         IN  <<m>> \o Ascending(S \ {m})

\* the values of s, ascending, with repetitions
RECURSIVE SortedSeq(_)
SortedSeq(s) ==
    IF s = <<>> THEN <<>>
    ELSE LET i == CHOOSE i \in 1..Len(s) : \A j \in 1..Len(s) : s[i] <= s[j]
         IN  <<s[i]>> \o SortedSeq([k \in 1..(Len(s) - 1) |-> IF k < i THEN s[k] ELSE s[k + 1]])

\* all the orders (sequences without repetition) of a finite set
RECURSIVE Orders(_)
Orders(S) ==
    IF S = {} THEN {<<>>}
    ELSE UNION {{<<x>> \o p : p \in Orders(S \ {x})} : x \in S}

(***************************************************************************)
(* Pie chart: _make_pie_source                                             *)
(***************************************************************************)
\* the name of the merged row
Other == 0 - 1

\* the size of the palette Category20[20]
PaletteSize == 20

\* col.reset_index().groupby(col.name).count(): one entry per distinct value,
\* ascending by value, missing values left out, with the number of its rows
GroupCounts(c) ==
    LET keys == Ascending({c[i] : i \in 1..Len(c)} \ {NaN})
    IN  [k \in 1..Len(keys) |->
            [names |-> keys[k],
             counts |-> Cardinality({i \in 1..Len(c) : c[i] = keys[k]})]]

\* the orders sort_values(by='counts', ascending=False) may leave the rows in:
\* counts never increase; the sort is numpy's quicksort, which promises no
\* order among rows of equal counts
SortOutcomes(rows) ==
    {p \in Orders(1..Len(rows)) :
        \A i \in 1..(Len(rows) - 1) : rows[p[i]].counts >= rows[p[i + 1]].counts}

\* the orders the rows of the counts of c may be in after "if sort:"
PieOrders(c, sort) ==
    IF sort THEN SortOutcomes(GroupCounts(c))
    ELSE {[i \in 1..Len(GroupCounts(c)) |-> i]}

\* Wedges with loc never moved on: every wedge starts at loc
WedgesApart(rows, loc) ==
    [i \in 1..Len(rows) |->
        [names |-> rows[i].names, counts |-> rows[i].counts,
         percents |-> rows[i].percents, starts |-> loc,
         ends |-> RatAdd(loc, RatMul(Int2Rat(2), rows[i].percents))]]

\* the wedge angles, as multiples of pi: the loop of lines 388-396
RECURSIVE Wedges(_, _)
Wedges(rows, loc) ==
    IF rows = <<>> THEN <<>>
    ELSE LET r == Head(rows)
             end == RatAdd(loc, RatMul(Int2Rat(2), r.percents))
         IN  <<[names |-> r.names, counts |-> r.counts, percents |-> r.percents,
                starts |-> loc, ends |-> end]>> \o Wedges(Tail(rows), end)

\* Renormalised without the division: the fractions of the whole column
Unrenormalised(rows) == rows

\* tmp['percents'] / tmp['percents'].sum()
Renormalised(rows) ==
    LET total == RatSum(Column(rows, "percents"))
    IN  [i \in 1..Len(rows) |->
            [rows[i] EXCEPT !.percents = RatDiv(rows[i].percents, total)]]

\* Merged with the merged row's count taken one rank too late
MergedLate(rows, mergepast) ==
    LET tail == SliceFrom(rows, mergepast + 1)
    IN  SliceTo(rows, mergepast) \o
        <<[names |-> Other,
           counts |-> IntSum(Column(tail, "counts")),
           percents |-> RatSum(Column(tail, "percents")),
           starts |-> rows[mergepast + 1].starts,
           ends |-> rows[Len(rows)].ends]>>

\* the merge of lines 398-408: everything from rank mergepast on becomes one row
Merged(rows, mergepast) ==
    LET tail == SliceFrom(rows, mergepast)
    IN  SliceTo(rows, mergepast) \o
        <<[names |-> Other,
           counts |-> IntSum(Column(tail, "counts")),
           percents |-> RatSum(Column(tail, "percents")),
           starts |-> rows[mergepast + 1].starts,
           ends |-> rows[Len(rows)].ends]>>

\* _make_pie_source(col, mergepast, sort, drop_n); order is the order the sort
\* left the rows in (one of SortOutcomes)
MakePieSource(c, mergepast, sort, drop_n, order) ==
    LET values == GroupCounts(c)
        total == Len(c)
        tmp0 == [i \in 1..Len(values) |->
                    [names |-> values[i].names, counts |-> values[i].counts,
                     percents |-> Rat(values[i].counts, total)]]
        tmp1 == IF sort THEN [i \in 1..Len(tmp0) |-> tmp0[order[i]]] ELSE tmp0
        tmp2 == IF drop_n # None /\ Val(drop_n) # 0
                THEN Renormalised(SliceFrom(tmp1, Val(drop_n)))
                ELSE tmp1
        tmp3 == Wedges(tmp2, Int2Rat(0))
        tmp4 == IF mergepast # None /\ Val(mergepast) < Len(tmp3)
                THEN Merged(tmp3, Val(mergepast))
                ELSE tmp3
    IN  [i \in 1..Len(tmp4) |->
            [names |-> tmp4[i].names, counts |-> tmp4[i].counts,
             percents |-> tmp4[i].percents, starts |-> tmp4[i].starts,
             ends |-> tmp4[i].ends, colors |-> (i - 1) % PaletteSize]]

\* the columns a pie chart is made of: values 1..MaxVal and missing values
PieColumns ==
    UNION {[1..n -> (1..MaxVal) \cup {NaN}] : n \in 1..MaxLen}

MergeArgs == {None} \cup {Some(k) : k \in 0..MaxMerge}
DropArgs == {None} \cup {Some(n) : n \in (0 - 1)..MaxDrop}

\* Untouched with the first column sorted in place
SortedInPlace == col' = SortedSeq(col) /\ UNCHANGED <<col2, col3>>

\* what a call does to the columns it is given: every table is built anew
\* (reset_index, pd.DataFrame, boolean indexing, pd.to_datetime give new
\* objects) and every assignment goes to such a table
Untouched == UNCHANGED <<col, col2, col3>>

\* no call is under way: the functions keep nothing between two calls
Idle == call.fn = "none"

\* the caller drops the chart it was given; the next call starts afresh
Discard ==
    /\ ~Idle
    /\ call' = [fn |-> "none"]
    /\ out' = [kind |-> "none"]
    /\ Untouched

InitPie ==
    /\ col \in PieColumns
    /\ col2 = <<>>
    /\ col3 = <<>>
    /\ call = [fn |-> "none"]
    /\ out = [kind |-> "none"]

\* static_piechart(col, sort, mergepast, drop_n): the data source of the chart
StaticPiechart ==
    /\ Idle
    /\ \E sort \in BOOLEAN :
          \E order \in PieOrders(col, sort) :
              \E mergepast \in MergeArgs, drop_n \in DropArgs :
                  /\ call' = [fn |-> "static_piechart", sort |-> sort,
                              mergepast |-> mergepast, drop_n |-> drop_n]
                  /\ out' = [kind |-> "source",
                             rows |-> MakePieSource(col, mergepast, sort, drop_n, order)]
    /\ Untouched

NextPie == StaticPiechart \/ Discard

SpecPie == InitPie /\ [][NextPie]_vars

(***************************************************************************)
(* Claims about the pie chart.                                             *)
(***************************************************************************)
PieCalled == call.fn = "static_piechart"

\* the number of distinct values of the column (col.nunique())
NUnique(c) == Cardinality({c[i] : i \in 1..Len(c)} \ {NaN})

\* the angle each row spans
Spans(rows) == [i \in 1..Len(rows) |-> RatSub(rows[i].ends, rows[i].starts)]

\* C3: whenever at least one category is left, the fractions of the rows sum
\* to 1 and their wedge spans sum to 2 pi (a full circle).
C3_FullCircle ==
    (PieCalled /\ out.rows # <<>>) =>
        /\ RatSum(Column(out.rows, "percents")) = Int2Rat(1)
        /\ RatSum(Spans(out.rows)) = Int2Rat(2)

\* C4: if mergepast = K is smaller than the number of entries left after the
\* drop, the output is the first K entries unchanged followed by one row named
\* Other whose count is the sum of the counts of the collapsed entries;
\* otherwise the entries are returned as they are and no row is named Other.
C4_MergeInvariant ==
    PieCalled =>
        \E order \in PieOrders(col, call.sort) :
            LET before == MakePieSource(col, None, call.sort, call.drop_n, order)
                rows == out.rows
                K == Val(call.mergepast)
            IN  IF call.mergepast # None /\ K < Len(before)
                THEN /\ Len(rows) = K + 1
                     /\ \A i \in 1..K : rows[i] = before[i]
                     /\ rows[K + 1].names = Other
                     /\ rows[K + 1].counts =
                            IntSum([i \in 1..(Len(before) - K) |-> before[K + i].counts])
                ELSE /\ rows = before
                     /\ \A i \in 1..Len(rows) : rows[i].names # Other

\* a sorted pie with one entry dropped, one kept and two collapsed into Other
C4_Witness ==
    /\ PieCalled
    /\ call.sort
    /\ call.mergepast = Some(1)
    /\ Len(out.rows) = 2
    /\ out.rows[1].names # Other
    /\ out.rows[2].names = Other
    /\ out.rows[2].counts = 2

\* C5: dropping at least as many entries as the column has distinct values
\* ends in EmptyInputError; no summary is returned.
C5_DropAllRaises ==
    (/\ PieCalled
     /\ NUnique(col) > 0
     /\ call.drop_n # None
     /\ Val(call.drop_n) >= NUnique(col)) =>
        (out.kind = "error" /\ out.error = "EmptyInputError")

\* C14: with drop_n = N, 0 < N < number of distinct values, the output omits
\* exactly the first N entries of the current order (with sort=True none of
\* them is less frequent than an entry that stays) and keeps the others in
\* their order, each with the fraction count / sum of the remaining counts;
\* entries past mergepast are kept as the row Other, with their summed count
\* and fraction.
C14_DropRenormalises ==
    (/\ PieCalled
     /\ call.drop_n # None
     /\ Val(call.drop_n) > 0
     /\ Val(call.drop_n) < NUnique(col)) =>
        \E order \in PieOrders(col, call.sort) :
            LET N == Val(call.drop_n)
                entries == [i \in 1..NUnique(col) |-> GroupCounts(col)[order[i]]]
                kept == [i \in 1..(Len(entries) - N) |-> entries[N + i]]
                remaining == IntSum(Column(kept, "counts"))
                merged == call.mergepast # None /\ Val(call.mergepast) < Len(kept)
                K == IF merged THEN Val(call.mergepast) ELSE Len(kept)
                rest == IntSum([i \in 1..(Len(kept) - K) |-> kept[K + i].counts])
                rows == out.rows
            IN  /\ Len(rows) = IF merged THEN K + 1 ELSE K
                /\ \A i \in 1..K :
                      /\ rows[i].names = kept[i].names
                      /\ rows[i].counts = kept[i].counts
                      /\ rows[i].percents = Rat(kept[i].counts, remaining)
                /\ merged =>
                      /\ rows[K + 1].names = Other
                      /\ rows[K + 1].counts = rest
                      /\ rows[K + 1].percents = Rat(rest, remaining)
                /\ call.sort =>
                      \A i \in 1..N, j \in 1..Len(kept) :
                          entries[i].counts >= kept[j].counts

\* one of three values dropped: the two that stay have the fraction 1/2 each
C14_Witness ==
    /\ PieCalled
    /\ call.drop_n = Some(1)
    /\ call.mergepast = None
    /\ NUnique(col) = 3
    /\ Len(out.rows) = 2
    /\ out.rows[1].percents = Rat(1, 2)
    /\ out.rows[2].percents = Rat(1, 2)

\* C20: the first row starts at angle 0, every later row starts where the
\* row before it ends, every row but Other spans 2 pi times its fraction, and
\* Other starts at the start of the K-th entry (0-based: the first collapsed
\* one, which is the end of the last kept entry) and ends at the end of the
\* last collapsed entry.
C20_WedgesContiguous ==
    PieCalled =>
        \E order \in PieOrders(col, call.sort) :
            LET before == MakePieSource(col, None, call.sort, call.drop_n, order)
                merged == call.mergepast # None /\ Val(call.mergepast) < Len(before)
                K == Val(call.mergepast)
                rows == out.rows
            IN  /\ rows # <<>> => rows[1].starts = Int2Rat(0)
                /\ \A i \in 2..Len(rows) : rows[i].starts = rows[i - 1].ends
                /\ \A i \in 1..Len(rows) :
                      rows[i].names # Other =>
                          RatSub(rows[i].ends, rows[i].starts) =
                              RatMul(Int2Rat(2), rows[i].percents)
                /\ merged =>
                      /\ Len(rows) = K + 1
                      /\ rows[K + 1].starts = before[K + 1].starts
                      /\ rows[K + 1].ends = before[Len(before)].ends
                      /\ K > 0 => rows[K + 1].starts = before[K].ends

\* three values, the last two collapsed: Other runs from the end of the first
\* wedge, at 2/3 pi, to the full circle
C20_Witness ==
    /\ PieCalled
    /\ call.mergepast = Some(1)
    /\ call.drop_n = None
    /\ col = <<1, 2, 3>>
    /\ out.rows[1].starts = Int2Rat(0)
    /\ out.rows[2].names = Other
    /\ out.rows[2].starts = Rat(2, 3)
    /\ out.rows[2].ends = Int2Rat(2)


\* C22: with sort=True the entries are listed by non-increasing count and
\* entries of equal count keep their groupby order (ascending by value)
\* relative to each other; with sort=False the groupby order is kept.
\* Stated for calls that neither drop nor merge.
C22_SortStable ==
    (PieCalled /\ call.mergepast = None /\ call.drop_n = None) =>
        LET rows == out.rows
            groups == GroupCounts(col)
        IN  /\ Len(rows) = Len(groups)
            /\ IF call.sort
               THEN \A i \in 1..Len(rows), j \in 1..Len(rows) :
                       i < j => \/ rows[i].counts > rows[j].counts
                                \/ /\ rows[i].counts = rows[j].counts
                                   /\ rows[i].names < rows[j].names
               ELSE \A i \in 1..Len(rows) : rows[i].names = groups[i].names

(***************************************************************************)
(* Histograms: numpy.histogram as static_histogram calls it                *)
(***************************************************************************)
SeqMin(s) == CHOOSE x \in {s[i] : i \in 1..Len(s)} : \A i \in 1..Len(s) : x <= s[i]
SeqMax(s) == CHOOSE x \in {s[i] : i \in 1..Len(s)} : \A i \in 1..Len(s) : x >= s[i]

Half == Rat(1, 2)

\* Linspace with the step of n + 1 intervals: the last edge falls short of last
LinspaceShort(first, last, n) ==
    LET step == RatDiv(RatSub(last, first), Int2Rat(n + 1))
    IN  [i \in 1..(n + 1) |-> RatAdd(first, RatMul(Int2Rat(i - 1), step))]

\* numpy.linspace(first, last, n + 1): first + i * ((last - first) / n)
Linspace(first, last, n) ==
    LET step == RatDiv(RatSub(last, first), Int2Rat(n))
    IN  [i \in 1..(n + 1) |-> RatAdd(first, RatMul(Int2Rat(i - 1), step))]

\* the range numpy.histogram bins when given none: that of the data, (0, 1)
\* for no data, widened by 0.5 on both sides when it has width 0
HistRange(a) ==
    IF a = <<>> THEN <<Int2Rat(0), Int2Rat(1)>>
    ELSE IF SeqMin(a) = SeqMax(a)
         THEN <<RatSub(Int2Rat(SeqMin(a)), Half), RatAdd(Int2Rat(SeqMax(a)), Half)>>
         ELSE <<Int2Rat(SeqMin(a)), Int2Rat(SeqMax(a))>>

\* BinIndex without the step that puts the last edge into the last bin
BinIndexOpen(v, first, last, n) ==
    RatFloor(RatMul(RatSub(Int2Rat(v), first),
                    RatDiv(Int2Rat(n), RatSub(last, first))))

\* the bin (0-based) numpy.histogram counts v in: int((v - first) * norm), a
\* value on the last edge going to the last bin
BinIndex(v, first, last, n) ==
    LET f == RatFloor(RatMul(RatSub(Int2Rat(v), first),
                             RatDiv(Int2Rat(n), RatSub(last, first))))
    IN  IF f = n THEN n - 1 ELSE f

\* numpy.histogram(a, bins=n, density=False) for n >= 1
NpHistogram(a, n) ==
    LET r == HistRange(a)
    IN  [hist |-> [i \in 1..n |->
                     Cardinality({j \in 1..Len(a) : BinIndex(a[j], r[1], r[2], n) = i - 1})],
         edges |-> Linspace(r[1], r[2], n)]

\* col_max / col_min as given, or col.max() / col.min()
ColMax(c, col_max) == IF col_max = None THEN SeqMax(c) ELSE Val(col_max)
ColMin(c, col_min) == IF col_min = None THEN SeqMin(c) ELSE Val(col_min)

\* col[(col <= col_max) & (col >= col_min)], as row numbers and as values
InBounds(c, col_max, col_min) ==
    {j \in 1..Len(c) : c[j] <= ColMax(c, col_max) /\ c[j] >= ColMin(c, col_min)}
Truncated(c, col_max, col_min) ==
    LET keep(v) == v <= ColMax(c, col_max) /\ v >= ColMin(c, col_min)
    IN  SelectSeq(c, keep)

\* edges[:-1] and edges[1:]
ButLast(s) == SubSeq(s, 1, Len(s) - 1)
ButFirst(s) == SubSeq(s, 2, Len(s))

\* static_histogram(col, n_bins, col_max, col_min): the data source of the
\* chart, or the ValueError numpy.histogram raises for bins < 1
StaticHistogramSource(c, n_bins, col_max, col_min) ==
    IF n_bins < 1 THEN [kind |-> "error", error |-> "ValueError"]
    ELSE LET h == NpHistogram(Truncated(c, col_max, col_min), n_bins)
         IN  [kind |-> "source", hist |-> h.hist,
              left |-> ButLast(h.edges), right |-> ButFirst(h.edges)]

\* numeric columns: values 1..MaxVal
NumColumns == UNION {[1..n -> 1..MaxVal] : n \in 1..MaxLen}

\* col_min and col_max: None, or a number in the range of the values
BoundArgs == {None} \cup {Some(b) : b \in 1..MaxVal}

InitHist ==
    /\ col \in NumColumns
    /\ col2 = <<>>
    /\ col3 = <<>>
    /\ call = [fn |-> "none"]
    /\ out = [kind |-> "none"]

StaticHistogram ==
    /\ Idle
    /\ \E n_bins \in 0..MaxBins, col_max \in BoundArgs, col_min \in BoundArgs :
          /\ call' = [fn |-> "static_histogram", n_bins |-> n_bins,
                      col_max |-> col_max, col_min |-> col_min]
          /\ out' = StaticHistogramSource(col, n_bins, col_max, col_min)
    /\ Untouched

NextHist == StaticHistogram \/ Discard

SpecHist == InitHist /\ [][NextHist]_vars

(***************************************************************************)
(* Histogram with a label: static_histogram_and_label                      *)
(***************************************************************************)
\* a float that is not a number (0.0 / 0.0)
NaNf == <<0, 0>>

\* float division: 0.0 / 0.0 is not a number, and so is any quotient of one
\* (the divisors here are sums of non-negative terms: when one is 0, so is
\* the dividend)
FloatDiv(p, q) == IF p = NaNf \/ q = NaNf \/ q[1] = 0 THEN NaNf ELSE RatDiv(p, q)

\* NpDensity without the division by the bucket width: the share of each bucket
NpShare(h) ==
    LET total == Int2Rat(IntSum(h.hist))
    IN  [i \in 1..Len(h.hist) |-> FloatDiv(Int2Rat(h.hist[i]), total)]

\* numpy.histogram(a, bins=n, density=True): count / total / bucket width
NpDensity(h) ==
    LET total == Int2Rat(IntSum(h.hist))
    IN  [i \in 1..Len(h.hist) |->
            FloatDiv(FloatDiv(Int2Rat(h.hist[i]), total),
                     RatSub(h.edges[i + 1], h.edges[i]))]

\* pd.cut(col, edges, right=False): the bucket [edges[i], edges[i+1]) holding
\* v, found by searchsorted(side='right'); 0 when v is in no bucket
CutBin(v, edges) ==
    LET ids == Cardinality({e \in 1..Len(edges) : RatLe(edges[e], Int2Rat(v))})
    IN  IF ids = Len(edges) THEN 0 ELSE ids

\* float addition and multiplication: anything with a NaN is a NaN
FloatSum(s) == IF \E i \in 1..Len(s) : s[i] = NaNf THEN NaNf ELSE RatSum(s)
FloatMul(p, q) == IF p = NaNf \/ q = NaNf THEN NaNf ELSE RatMul(p, q)

\* cols['label'].groupby(pd.cut(col, edges, right=False)).sum().values: the
\* sum of the label over the rows of each bucket; a bucket without rows has
\* no sum (NaN) in the pandas the module was written for, and 0 in later ones
GroupSums(c, label, edges) ==
    [i \in 1..(Len(edges) - 1) |->
        LET rows == {j \in 1..Len(c) : CutBin(c[j], edges) = i}
        IN  IF rows = {} THEN NaNf
            ELSE Int2Rat(IntSum([j \in 1..Len(c) |-> IF j \in rows THEN label[j] ELSE 0]))]

\* NanToNum without the replacement: a missing sum stays missing
NanKept(a) == a

\* np.nan_to_num(a, 0): every NaN becomes 0
NanToNum(a) == [i \in 1..Len(a) |-> IF a[i] = NaNf THEN Int2Rat(0) ELSE a[i]]

\* label_hist of static_histogram_and_label before it is normalized
LabelSums(c, label, edges) == NanToNum(GroupSums(c, label, edges))

\* LabelDensity without the bucket width: the share of each bucket
LabelShare(sums, edges) ==
    [i \in 1..Len(sums) |-> FloatDiv(sums[i], FloatSum(sums))]

\* label_hist / (label_hist.sum() * (edges[1] - edges[0]))
LabelDensity(sums, edges) ==
    LET total == FloatMul(FloatSum(sums), RatSub(edges[2], edges[1]))
    IN  [i \in 1..Len(sums) |-> FloatDiv(sums[i], total)]

\* static_histogram_and_label(col, label, n_bins, col_max, col_min,
\* normalized): the data source of the chart, or numpy's ValueError
StaticHistogramAndLabelSource(c, label, n_bins, col_max, col_min, normalized) ==
    IF n_bins < 1 THEN [kind |-> "error", error |-> "ValueError"]
    ELSE LET h == NpHistogram(Truncated(c, col_max, col_min), n_bins)
             sums == LabelSums(c, label, h.edges)
         IN  [kind |-> "source",
              hist |-> IF normalized THEN NpDensity(h) ELSE h.hist,
              left |-> ButLast(h.edges), right |-> ButFirst(h.edges),
              label |-> IF normalized THEN LabelDensity(sums, h.edges) ELSE sums]

\* the values of a binary label
LabelValues == {0, 1}

\* two columns of the same length: numbers, and a binary label
InitLabel ==
    /\ \E n \in 1..MaxRows :
          /\ col \in [1..n -> 1..MaxVal]
          /\ col2 \in [1..n -> LabelValues]
    /\ col3 = <<>>
    /\ call = [fn |-> "none"]
    /\ out = [kind |-> "none"]

StaticHistogramAndLabel ==
    /\ Idle
    /\ \E n_bins \in 0..MaxBins, col_max \in BoundArgs, col_min \in BoundArgs,
          normalized \in BOOLEAN :
          /\ call' = [fn |-> "static_histogram_and_label", n_bins |-> n_bins,
                      col_max |-> col_max, col_min |-> col_min,
                      normalized |-> normalized]
          /\ out' = StaticHistogramAndLabelSource(col, col2, n_bins, col_max,
                                                  col_min, normalized)
    /\ Untouched

\* the two static histograms, over a column and its label
NextLabel == StaticHistogramAndLabel \/ StaticHistogram \/ Discard

SpecLabel == InitLabel /\ [][NextLabel]_vars

(***************************************************************************)
(* The dispatcher histogram(), applied to the figargs of show()             *)
(***************************************************************************)
\* what the callable made by histogram(col, y, n_bins, col_max, col_min,
\* normalized, dynamic) returns: the data source of a static chart, or the
\* doc callback of a dynamic one
HistogramSource(c, y, n_bins, col_max, col_min, normalized, dynamic) ==
    IF dynamic
    THEN IF y # None
         THEN [kind |-> "doc_callback", fn |-> "dynamic_histogram_and_label",
               normalized |-> normalized]
         ELSE [kind |-> "doc_callback", fn |-> "dynamic_histogram"]
    ELSE IF y # None
         THEN StaticHistogramAndLabelSource(c, y, n_bins, col_max, col_min, normalized)
         ELSE StaticHistogramSource(c, n_bins, col_max, col_min)

\* histogram(...) shown: y is None or the label column
Histogram ==
    /\ Idle
    /\ \E y \in {None, col2}, n_bins \in 0..MaxBins, col_max \in BoundArgs,
          col_min \in BoundArgs, normalized \in BOOLEAN, dynamic \in BOOLEAN :
          /\ call' = [fn |-> "histogram", y |-> y, n_bins |-> n_bins,
                      col_max |-> col_max, col_min |-> col_min,
                      normalized |-> normalized, dynamic |-> dynamic]
          /\ out' = HistogramSource(col, y, n_bins, col_max, col_min, normalized, dynamic)
    /\ Untouched

NextHistogram == Histogram \/ Discard

SpecHistogram == InitLabel /\ [][NextHistogram]_vars

(***************************************************************************)
(* Time series: static_timeseries.  Timestamps are numbers in a unit so    *)
(* coarse that rounding a bucket edge to whole nanoseconds does not show.  *)
(***************************************************************************)
\* the share of the range pandas.cut widens it by: 0.001 = 1 / Permille
Permille == 1000

\* the modes the dropdown of dynamic_timeseries offers
MenuModes == {"mean", "count", "sum", "max", "min"}

\* what SeriesGroupBy.aggregate(name) finds a method for, as far as modelled
GroupByMethods == MenuModes \cup {"median"}

\* the aggregate strings tried: the menu, another groupby method, and a
\* string that names none
AggregateArgs == GroupByMethods \cup {"total"}

\* CutEdges without the widening of the last edge
CutEdgesExact(a, n) ==
    LET mn == Int2Rat(SeqMin(a))
        mx == Int2Rat(SeqMax(a))
        tiny(x) == IF x[1] = 0 THEN Rat(1, Permille)
                   ELSE RatDiv(Int2Rat(Abs(x[1])), RatMul(Int2Rat(Permille), Int2Rat(x[2])))
    IN  IF mn = mx
        THEN Linspace(RatSub(mn, tiny(mn)), RatAdd(mx, tiny(mx)), n)
        ELSE Linspace(mn, mx, n)

\* the edges pandas.cut(a, n, right=False) makes for n >= 1 buckets over data
\* a: n equal steps from min to max, the last edge then moved up by 0.1% of
\* the range; when min = max, the range is first widened by 0.1% of |min| on
\* both sides
CutEdges(a, n) ==
    LET mn == Int2Rat(SeqMin(a))
        mx == Int2Rat(SeqMax(a))
        tiny(x) == IF x[1] = 0 THEN Rat(1, Permille)
                   ELSE RatDiv(Int2Rat(Abs(x[1])), RatMul(Int2Rat(Permille), Int2Rat(x[2])))
        adj == RatDiv(RatSub(mx, mn), Int2Rat(Permille))
        bins == Linspace(mn, mx, n)
    IN  IF mn = mx
        THEN Linspace(RatSub(mn, tiny(mn)), RatAdd(mx, tiny(mx)), n)
        ELSE [bins EXCEPT ![n + 1] = RatAdd(bins[n + 1], adj)]

\* groupby(...)['height'].aggregate(mode) on the heights of one bucket; a
\* bucket without rows counts and sums to 0 and has no mean, max, min, median
Aggregate(mode, heights) ==
    LET n == Len(heights)
        sorted == SortedSeq(heights)
    IN  CASE mode = "count" -> Int2Rat(n)
          [] mode = "sum" -> Int2Rat(IntSum(heights))
          [] n = 0 -> NaNf
          [] mode = "mean" -> Rat(IntSum(heights), n)
          [] mode = "max" -> Int2Rat(SeqMax(heights))
          [] mode = "min" -> Int2Rat(SeqMin(heights))
          [] mode = "median" ->
                IF n % 2 = 1 THEN Int2Rat(sorted[(n + 1) \div 2])
                ELSE Rat(sorted[n \div 2] + sorted[n \div 2 + 1], 2)

\* the heights of the rows of bucket i, in row order: the rows whose
\* timestamp is within the bounds and which pandas.cut puts in bucket i
BucketHeights(c, heights, col_max, col_min, edges, i) ==
    LET rows == Ascending({j \in InBounds(c, col_max, col_min) : CutBin(c[j], edges) = i})
    IN  [k \in 1..Len(rows) |-> heights[rows[k]]]

\* static_timeseries(col_1, col_2, col_max, col_min, n_bins, aggregate): the
\* data source of the chart, or the error raised: ValueError by pandas.cut
\* for n_bins < 1 or no timestamp within the bounds, then AttributeError by
\* aggregate for a string that names no groupby method
StaticTimeseriesSource(c, heights, col_max, col_min, n_bins, aggregate) ==
    LET truncated == Truncated(c, col_max, col_min)
        edges == CutEdges(truncated, n_bins)
    IN  IF n_bins < 1 \/ truncated = <<>>
        THEN [kind |-> "error", error |-> "ValueError"]
        ELSE IF aggregate \notin GroupByMethods
        THEN [kind |-> "error", error |-> "AttributeError"]
        ELSE [kind |-> "source",
              height |-> [i \in 1..n_bins |->
                            Aggregate(aggregate,
                                      BucketHeights(c, heights, col_max, col_min, edges, i))],
              left |-> ButLast(edges), right |-> ButFirst(edges)]

\* col_min and col_max: None, or a timestamp
StampArgs == {None} \cup {Some(b) : b \in 1..MaxStamp}

StaticTimeseries ==
    /\ Idle
    /\ \E n_bins \in 0..MaxBins, col_max \in StampArgs, col_min \in StampArgs,
          aggregate \in AggregateArgs :
          /\ call' = [fn |-> "static_timeseries", n_bins |-> n_bins,
                      col_max |-> col_max, col_min |-> col_min,
                      aggregate |-> aggregate]
          /\ out' = StaticTimeseriesSource(col, col2, col_max, col_min, n_bins, aggregate)
    /\ Untouched

\* two columns of the same length: timestamps, and the values to aggregate
InitTime ==
    /\ \E n \in 1..MaxRows :
          /\ col \in [1..n -> 1..MaxStamp]
          /\ col2 \in [1..n -> LabelValues]
    /\ col3 = <<>>
    /\ call = [fn |-> "none"]
    /\ out = [kind |-> "none"]

NextTime == StaticTimeseries \/ Discard

SpecTime == InitTime /\ [][NextTime]_vars

(***************************************************************************)
(* Scatter plot: _make_scatter_source                                      *)
(***************************************************************************)
\* tmp['pairs']: the pair of values of each row
Pairs(c1, c2) == [j \in 1..Len(c1) |-> <<c1[j], c2[j]>>]

\* the order groupby puts the pairs in: tuples compare by their first
\* elements, then by their second
PairLess(p, q) == p[1] < q[1] \/ (p[1] = q[1] /\ p[2] < q[2])

\* the group keys of groupby('pairs'): the distinct pairs, ascending
RECURSIVE PairKeys(_)
PairKeys(S) ==
    IF S = {} THEN <<>>
    ELSE LET m == CHOOSE p \in S : \A q \in S : p = q \/ PairLess(p, q)
         IN  <<m>> \o PairKeys(S \ {m})

\* GroupSize counting the rows that share the key's first value only
GroupSizeByFirst(pairs, key) == Cardinality({j \in 1..Len(pairs) : pairs[j][1] = key[1]})

\* groupby('pairs').count(): the number of rows of the group of a key
GroupSize(pairs, key) == Cardinality({j \in 1..Len(pairs) : pairs[j] = key})

\* groupby('pairs').first(): the first row of the group of a key
GroupFirst(pairs, key) == CHOOSE j \in 1..Len(pairs) :
    pairs[j] = key /\ \A i \in 1..(j - 1) : pairs[i] # key

\* _make_scatter_source(col1, col2): one row per group
MakeScatterSource(c1, c2) ==
    LET pairs == Pairs(c1, c2)
        keys == PairKeys({pairs[j] : j \in 1..Len(pairs)})
    IN  [k \in 1..Len(keys) |->
            LET first == GroupFirst(pairs, keys[k])
            IN  [pairs |-> keys[k],
                 count |-> GroupSize(pairs, keys[k]),
                 x |-> c1[first],
                 y |-> c2[first]]]

\* two numeric columns of the same length
InitScatter ==
    /\ \E n \in 1..MaxLen :
          /\ col \in [1..n -> 1..MaxVal]
          /\ col2 \in [1..n -> 1..MaxVal]
    /\ col3 = <<>>
    /\ call = [fn |-> "none"]
    /\ out = [kind |-> "none"]

\* static_scatterplot(col1, col2): the data source of the chart
StaticScatterplot ==
    /\ Idle
    /\ Len(col2) = Len(col)
    /\ call' = [fn |-> "static_scatterplot"]
    /\ out' = [kind |-> "source", rows |-> MakeScatterSource(col, col2)]
    /\ Untouched

NextScatter == StaticScatterplot \/ Discard

SpecScatter == InitScatter /\ [][NextScatter]_vars

(***************************************************************************)
(* Scatter plot with a label: _make_scatter_label_source                   *)
(***************************************************************************)
\* label.unique(): the values of a column in the order they first appear
RECURSIVE Unique(_)
Unique(s) ==
    IF s = <<>> THEN <<>>
    ELSE LET other(v) == v # Head(s)
         IN  <<Head(s)>> \o Unique(SelectSeq(Tail(s), other))

\* label_to_int[value]: the position (from 0) of a value in label.unique()
LabelToInt(label, value) ==
    (CHOOSE i \in 1..Len(Unique(label)) : Unique(label)[i] = value) - 1

\* _make_scatter_label_source(col1, col2, label): one row per input row, its
\* color the entry label_to_int % 20 + 1 of the palette; the palette has
\* the entries 0..19, and indexing it at 20 raises IndexError
MakeScatterLabelSource(c1, c2, label) ==
    LET index(j) == (LabelToInt(label, label[j]) % PaletteSize) + 1
    IN  IF \E j \in 1..Len(label) : index(j) >= PaletteSize
        THEN [kind |-> "error", error |-> "IndexError"]
        ELSE [kind |-> "source",
              rows |-> [j \in 1..Len(c1) |->
                          [pairs |-> <<c1[j], c2[j], label[j]>>,
                           x |-> c1[j], y |-> c2[j], label |-> label[j],
                           color |-> index(j)]]]

\* static_scatterplot_and_label(col1, col2, label): the data source
StaticScatterplotAndLabel ==
    /\ Idle
    /\ Len(col2) = Len(col) /\ Len(col3) = Len(col)
    /\ call' = [fn |-> "static_scatterplot_and_label"]
    /\ out' = MakeScatterLabelSource(col, col2, col3)
    /\ Untouched

\* the most distinct label values a labelled scatter plot is drawn over
MaxLabels == 20

\* n rows whose labels run through 1..k again and again, for a labelled
\* scatter plot with k distinct labels
InitPalette ==
    /\ \E n \in 1..MaxLabels, k \in 1..MaxLabels, x \in 1..MaxVal :
          /\ k <= n
          /\ col = [i \in 1..n |-> i]
          /\ col2 = [i \in 1..n |-> x]
          /\ col3 = [i \in 1..n |-> ((i - 1) % k) + 1]
    /\ call = [fn |-> "none"]
    /\ out = [kind |-> "none"]

NextPalette == StaticScatterplotAndLabel \/ Discard

SpecPalette == InitPalette /\ [][NextPalette]_vars

(***************************************************************************)
(* Dynamic charts.  The doc callback a dynamic function returns runs once  *)
(* per UI session (modify_doc); each run makes its own data source and its *)
(* own widgets, whose callbacks compute the data anew.  A session is a     *)
(* record of its widgets' values and the data source it draws.             *)
(***************************************************************************)
\* bins of the first rendering, and the first value of the bins slider
DefaultBins == 10

\* step of the range slider of dynamic_histogram
RangeStep == 5

\* the UI sessions
Sessions == {1, 2}

\* the values the bins slider (1..100) is moved between
SliderValues == {1, 2, DefaultBins}

\* NewSource handing every session the same object
SharedSource(sources) == 1

\* source = ColumnDataSource(...) in modify_doc: a new object for each run
NewSource(sources) == Len(sources) + 1

\* the sources with the data of source id set
Put(sources, id, data) ==
    IF id > Len(sources) THEN Append(sources, data)
    ELSE [sources EXCEPT ![id] = data]

\* what dynamic_histogram / dynamic_piechart / dynamic_timeseries returns
\* (lambda doc: modify_doc(doc, ...)), served to sessions that are yet to open
App(fn) ==
    [kind |-> "app", fn |-> fn,
     docs |-> [s \in Sessions |-> [open |-> FALSE]],
     sources |-> <<>>]

\* the dynamic function fn has been called and session s is not yet open
CanOpen(fn, s) == out.kind = "app" /\ out.fn = fn /\ ~out.docs[s].open

\* session s of the dynamic function fn is open
IsOpen(fn, s) == out.kind = "app" /\ out.fn = fn /\ out.docs[s].open

\* the data session s displays: the data of its source
Display(s) == out.sources[out.docs[s].source]

\* what session s shows: its widgets, and the data displayed once it is open
View(s) == IF out.docs[s].open THEN <<out.docs[s], Display(s)>> ELSE <<out.docs[s]>>

\* modify_doc has run for session s: its widgets, and its new source with data
Opened(s, widgets, data) ==
    LET id == NewSource(out.sources)
    IN  /\ out' = [out EXCEPT !.docs[s] = [widgets EXCEPT !.source = id],
                              !.sources = Put(@, id, data)]
        /\ UNCHANGED call
        /\ Untouched

\* a callback of session s has run: its widgets are now doc, and its source
\* holds data (source.data = ...)
Changed(s, doc, data) ==
    /\ out' = [out EXCEPT !.docs[s] = doc, !.sources[out.docs[s].source] = data]
    /\ UNCHANGED call
    /\ Untouched

\* dynamic_histogram(col, figargs)
DynamicHistogram ==
    /\ Idle
    /\ col2 = <<>>
    /\ \A j \in 1..Len(col) : col[j] # NaN
    /\ call' = [fn |-> "dynamic_histogram"]
    /\ out' = App("dynamic_histogram")
    /\ Untouched

\* dynamic_histogram.modify_doc: the first rendering and the widgets
DynHistModifyDoc(s) ==
    /\ CanOpen("dynamic_histogram", s)
    /\ Opened(s, [open |-> TRUE, source |-> 0, slider |-> DefaultBins,
                  range |-> <<SeqMin(col), SeqMax(col)>>],
              StaticHistogramSource(col, DefaultBins, None, None))

\* the data dynamic_histogram.callback computes from the widgets' values
HistCallbackData(c, n_bins, range) ==
    LET keep(v) == v < range[2] /\ v > range[1]
        h == NpHistogram(SelectSeq(c, keep), n_bins)
    IN  [kind |-> "source", hist |-> h.hist,
         left |-> ButLast(h.edges), right |-> ButFirst(h.edges)]

\* the values an end of the range slider stops at
RangeStops(c) ==
    {v \in SeqMin(c)..SeqMax(c) : (v - SeqMin(c)) % RangeStep = 0} \cup {SeqMax(c)}

\* the bins slider of session s is moved
DynHistSlider(s) ==
    /\ IsOpen("dynamic_histogram", s)
    /\ \E v \in SliderValues \ {out.docs[s].slider} :
          Changed(s, [out.docs[s] EXCEPT !.slider = v],
                  HistCallbackData(col, v, out.docs[s].range))

\* the range slider of session s is moved
DynHistRangeSelect(s) ==
    /\ IsOpen("dynamic_histogram", s)
    /\ \E lo \in RangeStops(col), hi \in RangeStops(col) :
          /\ lo <= hi
          /\ <<lo, hi>> # out.docs[s].range
          /\ Changed(s, [out.docs[s] EXCEPT !.range = <<lo, hi>>],
                     HistCallbackData(col, out.docs[s].slider, <<lo, hi>>))

\* dynamic_piechart(col, hover, figargs)
DynamicPiechart ==
    /\ Idle
    /\ col2 = <<>>
    /\ call' = [fn |-> "dynamic_piechart"]
    /\ out' = App("dynamic_piechart")
    /\ Untouched

\* dynamic_piechart.modify_doc: _make_pie_source(col, mergepast=n_values)
DynPieModifyDoc(s) ==
    /\ CanOpen("dynamic_piechart", s)
    /\ \E order \in PieOrders(col, TRUE) :
          Opened(s, [open |-> TRUE, source |-> 0, active |-> {0, 1},
                     merge |-> NUnique(col), drop |-> 0],
                 MakePieSource(col, Some(NUnique(col)), TRUE, None, order))

\* the data dynamic_piechart.callback may compute from the widgets' values:
\* sort is the list sorted_button.active, true unless empty
PieCallbackData(c, doc) ==
    {MakePieSource(c, Some(doc.merge), doc.active # {}, Some(doc.drop), order) :
        order \in PieOrders(c, doc.active # {})}

\* a callback of dynamic_piechart has run with the widgets of session s at doc
PieChanged(s, doc) == \E data \in PieCallbackData(col, doc) : Changed(s, doc, data)

\* the checkbox Sorted of session s is ticked or cleared
DynPieSorted(s) ==
    /\ IsOpen("dynamic_piechart", s)
    /\ \E active \in {{}, {0}} \ {out.docs[s].active} :
          PieChanged(s, [out.docs[s] EXCEPT !.active = active])

\* the merge slider of session s is moved
DynPieMerge(s) ==
    /\ IsOpen("dynamic_piechart", s)
    /\ \E v \in (1..NUnique(col)) \ {out.docs[s].merge} :
          PieChanged(s, [out.docs[s] EXCEPT !.merge = v])

\* the drop slider of session s is moved
DynPieDrop(s) ==
    /\ IsOpen("dynamic_piechart", s)
    /\ \E v \in (0..NUnique(col)) \ {out.docs[s].drop} :
          PieChanged(s, [out.docs[s] EXCEPT !.drop = v])

\* dynamic_timeseries(col_1, col_2, hover, figargs) with figargs given
DynamicTimeseries ==
    /\ Idle
    /\ Len(col2) = Len(col) /\ col3 = <<>>
    /\ call' = [fn |-> "dynamic_timeseries"]
    /\ out' = App("dynamic_timeseries")
    /\ Untouched

\* dynamic_timeseries.modify_doc: the mean over 10 buckets, and the widgets;
\* printed is what the last callback of the session printed
DynTimeModifyDoc(s) ==
    /\ CanOpen("dynamic_timeseries", s)
    /\ Opened(s, [open |-> TRUE, source |-> 0, slider |-> DefaultBins,
                  range |-> <<SeqMin(col), SeqMax(col)>>,
                  dropdown |-> "mean", label |-> "mean", printed |-> None],
              StaticTimeseriesSource(col, col2, None, None, DefaultBins, "mean"))

\* what the try block of dynamic_timeseries.callback computes from the
\* widgets' values, or the exception it raises
TimeCallbackResult(c, heights, doc) ==
    StaticTimeseriesSource(c, heights, Some(doc.range[2]), Some(doc.range[1]),
                           doc.slider, doc.dropdown)

\* Recomputed with the source emptied before the computation
RecomputedBlank(old, result) ==
    IF result.kind = "error"
    THEN [kind |-> "source", height |-> <<>>, left |-> <<>>, right |-> <<>>]
    ELSE result

\* the data of the source after the callback: source.data is assigned last
\* in the try block, so an exception leaves it as it was
Recomputed(old, result) == IF result.kind = "error" THEN old ELSE result

\* dynamic_timeseries.callback has run with the widgets of session s at doc:
\* dropdown.label follows on success, the exception is printed on failure
TimeChanged(s, doc) ==
    LET result == TimeCallbackResult(col, col2, doc)
        old == out.sources[out.docs[s].source]
    IN  Changed(s,
                IF result.kind = "error"
                THEN [doc EXCEPT !.printed = Some(result.error)]
                ELSE [doc EXCEPT !.label = doc.dropdown, !.printed = None],
                Recomputed(old, result))

\* the bins slider of session s is moved
DynTimeSlider(s) ==
    /\ IsOpen("dynamic_timeseries", s)
    /\ \E v \in SliderValues \ {out.docs[s].slider} :
          TimeChanged(s, [out.docs[s] EXCEPT !.slider = v])

\* the date range slider (step 1) of session s is moved
DynTimeRangeSelect(s) ==
    /\ IsOpen("dynamic_timeseries", s)
    /\ \E lo \in SeqMin(col)..SeqMax(col), hi \in SeqMin(col)..SeqMax(col) :
          /\ lo <= hi
          /\ <<lo, hi>> # out.docs[s].range
          /\ TimeChanged(s, [out.docs[s] EXCEPT !.range = <<lo, hi>>])

\* an entry of the dropdown of session s is picked
DynTimeDropdown(s) ==
    /\ IsOpen("dynamic_timeseries", s)
    /\ \E v \in MenuModes \ {out.docs[s].dropdown} :
          TimeChanged(s, [out.docs[s] EXCEPT !.dropdown = v])

\* dynamic_histogram_and_label(col, label, normalized, figargs)
DynamicHistogramAndLabel ==
    /\ Idle
    /\ Len(col2) = Len(col) /\ col3 = <<>>
    /\ \E normalized \in BOOLEAN :
          call' = [fn |-> "dynamic_histogram_and_label", normalized |-> normalized]
    /\ out' = App("dynamic_histogram_and_label")
    /\ Untouched

\* dynamic_histogram_and_label.modify_doc: the first rendering and the widgets
DynLabelModifyDoc(s) ==
    /\ CanOpen("dynamic_histogram_and_label", s)
    /\ Opened(s, [open |-> TRUE, source |-> 0, slider |-> DefaultBins,
                  range |-> <<SeqMin(col), SeqMax(col)>>],
              StaticHistogramAndLabelSource(col, col2, DefaultBins, None, None,
                                            call.normalized))

\* the data dynamic_histogram_and_label.callback computes from the widgets'
\* values: the histogram of the values strictly inside the range, and the
\* label summed over the rows of the whole column that fall in its buckets
LabelCallbackData(c, label, n_bins, range, normalized) ==
    LET keep(v) == v < range[2] /\ v > range[1]
        h == NpHistogram(SelectSeq(c, keep), n_bins)
        sums == LabelSums(c, label, h.edges)
    IN  [kind |-> "source",
         hist |-> IF normalized THEN NpDensity(h) ELSE h.hist,
         left |-> ButLast(h.edges), right |-> ButFirst(h.edges),
         label |-> IF normalized THEN LabelDensity(sums, h.edges) ELSE sums]

\* the bins slider of session s is moved
DynLabelSlider(s) ==
    /\ IsOpen("dynamic_histogram_and_label", s)
    /\ \E v \in SliderValues \ {out.docs[s].slider} :
          Changed(s, [out.docs[s] EXCEPT !.slider = v],
                  LabelCallbackData(col, col2, v, out.docs[s].range, call.normalized))

\* the range slider of session s is moved
DynLabelRangeSelect(s) ==
    /\ IsOpen("dynamic_histogram_and_label", s)
    /\ \E lo \in RangeStops(col), hi \in RangeStops(col) :
          /\ lo <= hi
          /\ <<lo, hi>> # out.docs[s].range
          /\ Changed(s, [out.docs[s] EXCEPT !.range = <<lo, hi>>],
                     LabelCallbackData(col, col2, out.docs[s].slider, <<lo, hi>>,
                                       call.normalized))

\* a column of numbers in ascending order and its binary label
InitDynLabel ==
    /\ \E n \in 1..MaxLen :
          /\ col \in {c \in [1..n -> 1..MaxVal] : c = SortedSeq(c)}
          /\ col2 \in [1..n -> LabelValues]
    /\ col3 = <<>>
    /\ call = [fn |-> "none"]
    /\ out = [kind |-> "none"]

\* the static chart with a label, and one session of the dynamic one
NextDynLabel ==
    \/ StaticHistogramAndLabel
    \/ DynamicHistogramAndLabel
    \/ DynLabelModifyDoc(1)
    \/ DynLabelSlider(1)
    \/ DynLabelRangeSelect(1)
    \/ Discard

SpecDynLabel == InitDynLabel /\ [][NextDynLabel]_vars

\* the Dendrogram object D read by the chart: one entry per step in each of
\* D.edges, D.threshlist and D.graphs; the edge list of a step is named by
\* the step, thresholds holds the thresholds and components the number of
\* graphs of each step
DendrogramOf(thresholds, components) ==
    [edges |-> [i \in 1..Len(thresholds) |-> i - 1],
     threshlist |-> thresholds,
     graphs |-> components]

\* dendrogram(D, figargs) with figargs given
DynamicDendrogram ==
    /\ Idle
    /\ Len(col2) = Len(col) /\ col3 = <<>>
    /\ call' = [fn |-> "dendrogram"]
    /\ out' = App("dendrogram")
    /\ Untouched

\* dendrogram.modify_doc: edges_source and step_source of step 0, and the
\* slider; raised is the exception the last callback of the session ended in
DendrogramModifyDoc(s) ==
    LET D == DendrogramOf(col, col2)
    IN  /\ CanOpen("dendrogram", s)
        /\ Opened(s, [open |-> TRUE, source |-> 0, slider |-> 0, raised |-> None],
                  [edges |-> D.edges[1],
                   step |-> [step |-> 0, thresh |-> D.threshlist[1],
                             components |-> D.graphs[1]]])

\* dendrogram.callback with the slider at value: D.edges[value] is read and
\* edges_source assigned, then D.threshlist[value] and D.graphs[value] are read
\* and step_source assigned; an index past the end of a list raises IndexError
\* and ends the callback there
DendrogramCallback(D, value, old) ==
    IF value >= Len(D.edges)
    THEN [data |-> old, raised |-> Some("IndexError")]
    ELSE IF value >= Len(D.threshlist) \/ value >= Len(D.graphs)
    THEN [data |-> [old EXCEPT !.edges = D.edges[value + 1]],
          raised |-> Some("IndexError")]
    ELSE [data |-> [edges |-> D.edges[value + 1],
                    step |-> [step |-> value, thresh |-> D.threshlist[value + 1],
                              components |-> D.graphs[value + 1]]],
          raised |-> None]

\* the step slider (start 0, end len(D.edges), step 1) of session s is moved
DendrogramSlider(s) ==
    /\ IsOpen("dendrogram", s)
    /\ \E v \in (0..Len(col)) \ {out.docs[s].slider} :
          LET result == DendrogramCallback(DendrogramOf(col, col2), v, Display(s))
          IN  Changed(s, [out.docs[s] EXCEPT !.slider = v, !.raised = result.raised],
                      result.data)

\* the thresholds of the steps of a dendrogram and the number of graphs of
\* each step
InitDendrogram ==
    /\ \E n \in 1..MaxLen :
          /\ col \in [1..n -> 1..MaxVal]
          /\ col2 = [i \in 1..n |-> n - i + 1]
    /\ col3 = <<>>
    /\ call = [fn |-> "none"]
    /\ out = [kind |-> "none"]

\* one session of the dendrogram chart
NextDendrogram ==
    \/ DynamicDendrogram
    \/ DendrogramModifyDoc(1)
    \/ DendrogramSlider(1)
    \/ Discard

SpecDendrogram == InitDendrogram /\ [][NextDendrogram]_vars

\* the single columns the dynamic histogram and pie are served over: two
\* values that tie, an unsorted column, and a column with a missing value
ChartColumns == {<<1, 2>>, <<2, 1, 1>>, <<NaN, 1>>}

\* the columns the charts are drawn over: one column for a histogram or a
\* pie, two timestamps and their values for a time series, two numeric
\* columns and a binary label for the scatter plots
InitCharts ==
    /\ \/ /\ col \in ChartColumns
          /\ col2 = <<>>
          /\ col3 = <<>>
       \/ /\ col = <<2, 1>>
          /\ col2 = <<1, 0>>
          /\ col3 = <<>>
       \/ \E n \in 1..MaxRows :
             /\ col \in [1..n -> 1..MaxStamp]
             /\ col2 \in [1..n -> 1..MaxStamp]
             /\ col3 \in [1..n -> LabelValues]
    /\ call = [fn |-> "none"]
    /\ out = [kind |-> "none"]

\* two sessions of every dynamic chart, and the static scatter plots
NextCharts ==
    \/ DynamicHistogram
    \/ DynamicPiechart
    \/ DynamicTimeseries
    \/ \E s \in Sessions :
          \/ DynHistModifyDoc(s)
          \/ DynHistSlider(s)
          \/ DynHistRangeSelect(s)
          \/ DynPieModifyDoc(s)
          \/ DynPieSorted(s)
          \/ DynPieMerge(s)
          \/ DynPieDrop(s)
          \/ DynTimeModifyDoc(s)
          \/ DynTimeSlider(s)
          \/ DynTimeRangeSelect(s)
          \/ DynTimeDropdown(s)
    \/ StaticScatterplot
    \/ StaticScatterplotAndLabel
    \/ Discard

SpecCharts == InitCharts /\ [][NextCharts]_vars

\* timestamps in order with gaps between them, and the values 1, 0, 1, ...
\* to aggregate
InitDynTime ==
    /\ \E n \in 1..MaxRows :
          /\ col \in {c \in [1..n -> 1..(MaxStamp + 1)] : c = SortedSeq(c)}
          /\ col2 = [i \in 1..n |-> i % 2]
    /\ col3 = <<>>
    /\ call = [fn |-> "none"]
    /\ out = [kind |-> "none"]

\* one session of dynamic_timeseries
NextDynTime ==
    \/ DynamicTimeseries
    \/ DynTimeModifyDoc(1)
    \/ DynTimeSlider(1)
    \/ DynTimeRangeSelect(1)
    \/ DynTimeDropdown(1)
    \/ Discard

SpecDynTime == InitDynTime /\ [][NextDynTime]_vars

(***************************************************************************)
(* Two-phase building: a plotting function called without figargs returns  *)
(* a callable that waits for them; show() supplies them.  Attribute values *)
(* of a figure are tokens; None is an attribute left at its default.       *)
(***************************************************************************)
\* the keys of the figargs dictionary show() builds
FigKeys == {"width", "height", "title", "x_axis", "y_axis", "x_range", "y_range"}

\* the options that are a pair (min, max)
RangeKeys == {"x_range", "y_range"}

\* the value an option is given, as a sequence of tokens: a pair for a range,
\* one token otherwise
Given(k) == IF k \in RangeKeys THEN <<"0", "10">> ELSE <<"given">>

\* the dictionaries show() may build: every option left out or given
FigArgs ==
    {f \in [FigKeys -> {None} \cup {Some(Given(k)) : k \in FigKeys}] :
        \A k \in FigKeys : f[k] \in {None, Some(Given(k))}}

\* Range1d(start, end)
Range1d(start, end) == <<"Range1d", start, end>>

\* what _modify_figure assigns for an option that is given: the value, or
\* for a range Range1d(value[0], value[1])
Assigned(k, value) ==
    IF k \in RangeKeys THEN Some(Range1d(Val(value)[1], Val(value)[2])) ELSE value

\* ModifyFigure assigning every option, None included
ModifyFigureAll(plot, figargs) ==
    [k \in FigKeys |-> IF figargs[k] # None THEN Assigned(k, figargs[k]) ELSE None]

\* _modify_figure(plot, figargs): every option that is not None is set
ModifyFigure(plot, figargs) ==
    [k \in FigKeys |-> IF figargs[k] # None THEN Assigned(k, figargs[k]) ELSE plot[k]]

\* the attributes a function gives its figure before _modify_figure
NoAttributes == [k \in FigKeys |-> None]
FigureOf(fn) ==
    CASE fn = "feature_importances" ->
            [NoAttributes EXCEPT !.height = Some(<<"500">>),
                                 !.title = Some(<<"Random Forest Feature Importances">>),
                                 !.y_range = Some(<<"features">>)]
      [] fn = "roc_auc" ->
            [NoAttributes EXCEPT !.title = Some(<<"Receiver operating characteristic">>),
                                 !.x_axis = Some(<<"False Positive Rate">>),
                                 !.y_axis = Some(<<"True Positive Rate">>)]
      [] fn = "f1" ->
            [NoAttributes EXCEPT !.title = Some(<<"Precision, Recall, and F1 by Threshold">>),
                                 !.x_axis = Some(<<"Threshold">>)]
      [] OTHER -> NoAttributes

\* lambda figargs: target(*args, figargs) or target(*args, figargs=figargs)
Waiting(target, args, keyword) ==
    [kind |-> "waiting", target |-> target, args |-> args, keyword |-> keyword]

\* dynamic_timeseries(col_1, col_2, hover, figargs), figargs None or Some(dict)
DynamicTimeseriesCall(col_1, col_2, hover, figargs) ==
    IF figargs = None
    THEN Waiting("dynamic_timeseries", [col_1 |-> col_1, col_2 |-> col_2], FALSE)
    ELSE [kind |-> "doc_callback", fn |-> "dynamic_timeseries",
          args |-> [col_1 |-> col_1, col_2 |-> col_2], hover |-> hover,
          figargs |-> figargs]

\* static_timeseries(col_1, col_2, ..., figargs), figargs None or Some(dict)
StaticTimeseriesCall(args, figargs) ==
    IF figargs = None
    THEN Waiting("dynamic_timeseries", [col_1 |-> args.col_1, col_2 |-> args.col_2], FALSE)
    ELSE LET source == StaticTimeseriesSource(args.col_1, args.col_2, args.col_max,
                                              args.col_min, args.n_bins, args.aggregate)
         IN  IF source.kind = "error" THEN source
             ELSE [kind |-> "plot", fn |-> "static_timeseries", args |-> args,
                   source |-> source,
                   figure |-> ModifyFigure(FigureOf("static_timeseries"), Val(figargs))]

\* feature_importances, roc_auc, f1 (X, y, model, ..., figargs): the chart is
\* made by henchman.learning and sklearn, of which only the figure is modelled
LearningCall(fn, args, figargs) ==
    IF figargs = None
    THEN Waiting(fn, args, TRUE)
    ELSE [kind |-> "plot", fn |-> fn, args |-> args,
          figure |-> ModifyFigure(FigureOf(fn), Val(figargs))]

\* dendrogram(D, figargs)
DendrogramCall(args, figargs) ==
    IF figargs = None
    THEN Waiting("dendrogram", args, TRUE)
    ELSE [kind |-> "doc_callback", fn |-> "dendrogram", args |-> args,
          figargs |-> figargs]

\* the callable w applied to the dictionary figargs: a keyword callable hands
\* it on as figargs, the callables of the two timeseries functions as the
\* third positional argument, which is hover
Applied(w, figargs) ==
    CASE w.target = "dynamic_timeseries" ->
            IF w.keyword
            THEN DynamicTimeseriesCall(w.args.col_1, w.args.col_2, TRUE, Some(figargs))
            ELSE DynamicTimeseriesCall(w.args.col_1, w.args.col_2, Some(figargs), None)
      [] w.target = "static_timeseries" -> StaticTimeseriesCall(w.args, Some(figargs))
      [] w.target = "dendrogram" -> DendrogramCall(w.args, Some(figargs))
      [] OTHER -> LearningCall(w.target, w.args, Some(figargs))

\* a call without figargs: the arguments are kept, the result awaits show()
Built(fn, args, result) ==
    /\ Idle
    /\ call' = [fn |-> fn, stage |-> "built", args |-> args]
    /\ out' = result
    /\ Untouched

StaticTimeseriesBuild ==
    \E n_bins \in 1..MaxBins, aggregate \in MenuModes :
        LET args == [col_1 |-> col, col_2 |-> col2, col_max |-> None,
                     col_min |-> None, n_bins |-> n_bins, aggregate |-> aggregate]
        IN  Built("static_timeseries", args, StaticTimeseriesCall(args, None))

DynamicTimeseriesBuild ==
    LET args == [col_1 |-> col, col_2 |-> col2]
    IN  Built("dynamic_timeseries", args, DynamicTimeseriesCall(col, col2, TRUE, None))

FeatureImportances ==
    \E n_feats \in 1..MaxBins :
        LET args == [X |-> col, model |-> "model", n_feats |-> n_feats]
        IN  Built("feature_importances", args, LearningCall("feature_importances", args, None))

RocAuc ==
    \E n_splits \in 1..MaxBins :
        LET args == [X |-> col, y |-> col2, model |-> "model", n_splits |-> n_splits]
        IN  Built("roc_auc", args, LearningCall("roc_auc", args, None))

F1 ==
    \E n_splits \in 1..MaxBins :
        LET args == [X |-> col, y |-> col2, model |-> "model", n_splits |-> n_splits]
        IN  Built("f1", args, LearningCall("f1", args, None))

Dendrogram ==
    LET args == [D |-> col]
    IN  Built("dendrogram", args, DendrogramCall(args, None))

\* timeseries(col1, col2, n_bins=n_bins, dynamic=dynamic): a callable that
\* hands figargs on by keyword
Timeseries ==
    \E n_bins \in 1..MaxBins, dynamic \in BOOLEAN :
        LET args == [col_1 |-> col, col_2 |-> col2, col_max |-> None,
                     col_min |-> None, n_bins |-> n_bins, aggregate |-> "mean"]
        IN  Built("timeseries", args,
                  IF dynamic
                  THEN Waiting("dynamic_timeseries", [col_1 |-> col, col_2 |-> col2], TRUE)
                  ELSE Waiting("static_timeseries", args, TRUE))

\* show(plot, width, ..., y_range): figure = plot(figargs=figargs)
Show ==
    /\ ~Idle
    /\ call.stage = "built"
    /\ \E figargs \in FigArgs :
          /\ call' = [fn |-> call.fn, stage |-> "shown", args |-> call.args,
                      figargs |-> figargs]
          /\ out' = Applied(out, figargs)
    /\ Untouched

NextBuild ==
    \/ StaticTimeseriesBuild
    \/ DynamicTimeseriesBuild
    \/ FeatureImportances
    \/ RocAuc
    \/ F1
    \/ Dendrogram
    \/ Timeseries
    \/ Show
    \/ Discard

SpecBuild == InitTime /\ [][NextBuild]_vars

\* timestamps 1..n and the values 1, 0, 1, ... for the charts that are shown
InitFigure ==
    /\ \E n \in 1..MaxRows :
          /\ col = [i \in 1..n |-> i]
          /\ col2 = [i \in 1..n |-> i % 2]
    /\ col3 = <<>>
    /\ call = [fn |-> "none"]
    /\ out = [kind |-> "none"]

SpecFigure == InitFigure /\ [][NextBuild]_vars

(***************************************************************************)
(* Claims about static_histogram.                                          *)
(***************************************************************************)
HistCalled == call.fn = "static_histogram"

\* the bounds the call works with
EffMax == ColMax(col, call.col_max)
EffMin == ColMin(col, call.col_min)

\* the rows of col whose value lies within the bounds
Counted == InBounds(col, call.col_max, call.col_min)

\* exactly k buckets, each of positive width, each starting where the one
\* before it ends
KBuckets(o, k) ==
    /\ o.kind = "source"
    /\ Len(o.left) = k /\ Len(o.right) = k
    /\ \A i \in 1..k : RatLt(o.left[i], o.right[i])
    /\ \A i \in 1..(k - 1) : o.right[i] = o.left[i + 1]

\* value v lies in bucket i of o: [left, right), the last bucket [left, right]
InBucket(o, v, i) ==
    /\ RatLe(o.left[i], Int2Rat(v))
    /\ \/ RatLt(Int2Rat(v), o.right[i])
       \/ i = Len(o.right) /\ Int2Rat(v) = o.right[i]

\* C1 as stated: for k > 0 there are exactly k contiguous buckets with
\* strictly increasing edges, the first edge <= col_min and the last edge
\* >= col_max.
C1_CoversBounds ==
    (HistCalled /\ call.n_bins > 0 /\ EffMin <= EffMax) =>
        /\ KBuckets(out, call.n_bins)
        /\ Len(out.hist) = call.n_bins
        /\ RatLe(out.left[1], Int2Rat(EffMin))
        /\ RatLe(Int2Rat(EffMax), out.right[call.n_bins])

\* C1 as amended: for k > 0 there are exactly k contiguous buckets with
\* strictly increasing edges, and they cover every column value that lies
\* within [col_min, col_max] (with no bounds given, all of [min, max]).
C1_CoversCounted ==
    (HistCalled /\ call.n_bins > 0) =>
        /\ KBuckets(out, call.n_bins)
        /\ Len(out.hist) = call.n_bins
        /\ \A j \in Counted :
              /\ RatLe(out.left[1], Int2Rat(col[j]))
              /\ RatLe(Int2Rat(col[j]), out.right[call.n_bins])

\* two buckets over the values 2..3 although col_min = 1 was asked for
C1_Witness ==
    /\ HistCalled
    /\ call.n_bins = 2
    /\ call.col_min = Some(1)
    /\ out.left[1] = Int2Rat(2)
    /\ out.right[2] = Int2Rat(3)

\* C2: the bucket counts sum to the number of values within
\* [col_min, col_max]; each of these lies in exactly one bucket, each bucket
\* counts the values lying in it, and values outside the bounds are counted
\* nowhere; with no bounds given the counts sum to the length of the column.
C2_CountsInBounds ==
    (HistCalled /\ call.n_bins > 0) =>
        /\ IntSum(out.hist) = Cardinality(Counted)
        /\ \A j \in Counted :
              Cardinality({i \in 1..call.n_bins : InBucket(out, col[j], i)}) = 1
        /\ \A i \in 1..call.n_bins :
              out.hist[i] = Cardinality({j \in Counted : InBucket(out, col[j], i)})
        /\ (call.col_min = None /\ call.col_max = None) =>
              IntSum(out.hist) = Len(col)

\* a value is left out by col_max, and two values are counted in two buckets,
\* one of them on the last edge
C2_Witness ==
    /\ HistCalled
    /\ call.n_bins = 2
    /\ call.col_max # None
    /\ Len(col) = 3
    /\ out.hist = <<1, 1>>
    /\ \E j \in Counted : Int2Rat(col[j]) = out.right[2]

\* C7, for calls with a positive bucket count: col_min > col_max ends in
\* InvalidBoundsError, bounds that leave no value end in EmptyInputError, and
\* no bucketed series is returned.
C7_InvalidInputRaises ==
    (HistCalled /\ call.n_bins > 0) =>
        /\ EffMin > EffMax =>
              (out.kind = "error" /\ out.error = "InvalidBoundsError")
        /\ (EffMin <= EffMax /\ Counted = {}) =>
              (out.kind = "error" /\ out.error = "EmptyInputError")

(***************************************************************************)
(* Claims about static_histogram_and_label.                                *)
(***************************************************************************)
LabelCalled == call.fn = "static_histogram_and_label"

\* C9: with normalized=False the label of bucket i is the sum of the label
\* over exactly the rows the histogram counts in bucket i: the rows within
\* [col_min, col_max] whose value lies in the bucket, the column maximum (on
\* the last edge) included.
C9_LabelOverCountedRows ==
    (LabelCalled /\ call.n_bins > 0 /\ ~call.normalized) =>
        \A i \in 1..call.n_bins :
            /\ out.hist[i] = Cardinality({j \in Counted : InBucket(out, col[j], i)})
            /\ out.label[i] =
                  Int2Rat(IntSum([j \in 1..Len(col) |->
                                    IF j \in Counted /\ InBucket(out, col[j], i)
                                    THEN col2[j] ELSE 0]))

\* C11: with normalized=True and at least one value within the bounds, the
\* heights of static_histogram_and_label times the bucket widths sum to 1.
C11_DensityIntegratesToOne ==
    (LabelCalled /\ call.n_bins > 0 /\ call.normalized /\ Counted # {}) =>
        RatSum([i \in 1..call.n_bins |->
                  RatMul(out.hist[i], RatSub(out.right[i], out.left[i]))]) = Int2Rat(1)

\* two values in two buckets of width 1/2: both heights are 1
C11_Witness ==
    /\ LabelCalled
    /\ call.normalized
    /\ call.n_bins = 2
    /\ col = <<1, 2>>
    /\ out.hist = <<Int2Rat(1), Int2Rat(1)>>
    /\ out.right[1] = Rat(3, 2)

\* C13: in static_histogram and in static_histogram_and_label with
\* normalized=False, both series have exactly n_bins entries, none of them
\* NaN or absent, and a bucket that contains no value of the column has
\* hist = 0 and label = 0.
C13_EmptyBucketsZero ==
    ((HistCalled \/ (LabelCalled /\ ~call.normalized)) /\ call.n_bins > 0) =>
        /\ Len(out.hist) = call.n_bins
        /\ \A i \in 1..call.n_bins : out.hist[i] \in Nat
        /\ LabelCalled =>
              /\ Len(out.label) = call.n_bins
              /\ \A i \in 1..call.n_bins : out.label[i] # NaNf
        /\ \A i \in 1..call.n_bins :
              (\A j \in 1..Len(col) : ~InBucket(out, col[j], i)) =>
                  /\ out.hist[i] = 0
                  /\ LabelCalled => out.label[i] = Int2Rat(0)

\* three buckets over the values 1 and 3: the middle one holds no row
C13_Witness ==
    /\ LabelCalled
    /\ ~call.normalized
    /\ call.n_bins = 3
    /\ col = <<1, 3>>
    /\ col2 = <<1, 1>>
    /\ out.hist = <<1, 0, 1>>
    /\ out.label[2] = Int2Rat(0)

(***************************************************************************)
(* Claims about histogram().                                               *)
(***************************************************************************)
HistogramCalled == call.fn = "histogram"

\* C12: histogram(col, normalized=True, dynamic=False) without a label
\* yields densities, count / (number of values within the bounds * bucket
\* width), and raw counts only with normalized=False.
C12_NormalizedHonoured ==
    (/\ HistogramCalled
     /\ ~call.dynamic
     /\ call.y = None
     /\ call.n_bins > 0
     /\ Counted # {}) =>
        \A i \in 1..call.n_bins :
            LET count == Cardinality({j \in Counted : InBucket(out, col[j], i)})
                width == RatSub(out.right[i], out.left[i])
            IN  Int2Rat(out.hist[i]) =
                    IF call.normalized
                    THEN RatDiv(Rat(count, Cardinality(Counted)), width)
                    ELSE Int2Rat(count)

(***************************************************************************)
(* Claims about static_timeseries.                                         *)
(***************************************************************************)
TimeCalled == call.fn = "static_timeseries"

\* the widths of the buckets of o
Widths(o) == [i \in 1..Len(o.left) |-> RatSub(o.right[i], o.left[i])]

\* timestamp v lies in the half-open interval i of o
InInterval(o, v, i) ==
    RatLe(o.left[i], Int2Rat(v)) /\ RatLt(Int2Rat(v), o.right[i])

\* each height of o is the aggregate of the values of exactly the rows within
\* the bounds whose timestamp lies in the interval, and every such row lies
\* in exactly one interval
HeightsOverIntervals(o) ==
    /\ \A i \in 1..call.n_bins :
          LET rows == Ascending({j \in Counted : InInterval(o, col[j], i)})
          IN  o.height[i] =
                 Aggregate(call.aggregate, [k \in 1..Len(rows) |-> col2[rows[k]]])
    /\ \A j \in Counted :
          Cardinality({i \in 1..call.n_bins : InInterval(o, col[j], i)}) = 1

\* a call the claims about the buckets speak of: a menu mode, k >= 1, and at
\* least one timestamp within the bounds
TimeBucketed ==
    /\ TimeCalled
    /\ call.aggregate \in MenuModes
    /\ call.n_bins > 0
    /\ Counted # {}

\* C6, for calls with k >= 1 and a timestamp within the bounds: an aggregate
\* string outside {mean, count, sum, max, min} ends in
\* UnsupportedAggregateError and yields no series; a mode inside the set is
\* never refused as unsupported.
C6_AggregateValidated ==
    (TimeCalled /\ call.n_bins > 0 /\ Counted # {}) =>
        IF call.aggregate \in MenuModes
        THEN out.kind = "error" => out.error # "UnsupportedAggregateError"
        ELSE out.kind = "error" /\ out.error = "UnsupportedAggregateError"

\* C10 as stated: k contiguous ascending intervals of equal width from
\* min(timestamp) to max(timestamp), or the given col_min / col_max, each
\* height the aggregate of exactly the rows of its interval.
C10_EqualWidthOverBounds ==
    TimeBucketed =>
        /\ KBuckets(out, call.n_bins)
        /\ \A i \in 1..call.n_bins : Widths(out)[i] = Widths(out)[1]
        /\ RatLe(out.left[1], Int2Rat(EffMin))
        /\ RatLe(Int2Rat(EffMax), out.right[call.n_bins])
        /\ HeightsOverIntervals(out)

\* C10 as amended: k contiguous ascending half-open intervals that start at
\* the smallest timestamp within the bounds and contain the largest; all but
\* the last have the width range / k, the last is longer by 0.1% of the range
\* (all are equal when every timestamp within the bounds is the same); each
\* height is the aggregate of exactly the rows of its interval, and every row
\* within the bounds, the one at the maximum included, is in exactly one.
C10_Buckets ==
    TimeBucketed =>
        LET lo == SeqMin(Truncated(col, call.col_max, call.col_min))
            hi == SeqMax(Truncated(col, call.col_max, call.col_min))
            k == call.n_bins
            step == Rat(hi - lo, k)
        IN  /\ KBuckets(out, k)
            /\ HeightsOverIntervals(out)
            /\ RatLe(out.left[1], Int2Rat(lo))
            /\ RatLt(Int2Rat(hi), out.right[k])
            /\ lo < hi =>
                  /\ out.left[1] = Int2Rat(lo)
                  /\ \A i \in 1..(k - 1) : Widths(out)[i] = step
                  /\ Widths(out)[k] = RatAdd(step, Rat(hi - lo, Permille))
            /\ lo = hi => \A i \in 1..k : Widths(out)[i] = Widths(out)[1]

\* the mean over two buckets of two timestamps; the later one, the maximum, is
\* in the second bucket, which is the longer one
C10_Witness ==
    /\ TimeCalled
    /\ call.aggregate = "mean"
    /\ call.n_bins = 2
    /\ col = <<1, 2>>
    /\ col2 = <<0, 1>>
    /\ out.height = <<Int2Rat(0), Int2Rat(1)>>
    /\ RatLt(Widths(out)[1], Widths(out)[2])

(***************************************************************************)
(* Claims about _make_scatter_source.                                      *)
(***************************************************************************)
ScatterCalled == call.fn = "static_scatterplot"

TwoPhase ==
    {"static_timeseries", "dynamic_timeseries", "feature_importances",
     "roc_auc", "f1", "dendrogram"}

\* C19: a function called without figargs (static_timeseries,
\* dynamic_timeseries, feature_importances, roc_auc, f1, dendrogram) returns
\* a callable which, applied once to a figure-options dictionary, returns
\* the chart (for dynamic_timeseries and dendrogram the doc callback) of the
\* same function, with the arguments first given and the options applied,
\* and never another waiting callable.
C19_OneStepBuild ==
    (call.fn \in TwoPhase /\ call.stage = "shown") =>
        /\ out.kind = IF call.fn \in {"dynamic_timeseries", "dendrogram"}
                      THEN "doc_callback" ELSE "plot"
        /\ out.fn = call.fn
        /\ out.args = call.args
        /\ out.kind = "plot" =>
              out.figure = ModifyFigure(FigureOf(call.fn), call.figargs)
        /\ out.kind = "doc_callback" => out.figargs = Some(call.figargs)

\* the data source whose label is normalized, if there is one: the result of
\* static_histogram_and_label, or what session 1 of the dynamic chart displays
NormalizedSources ==
    IF call.fn = "static_histogram_and_label"
    THEN IF out.kind = "source" /\ call.normalized THEN {out} ELSE {}
    ELSE IF IsOpen("dynamic_histogram_and_label", 1) /\ call.normalized
    THEN {Display(1)}
    ELSE {}

\* S: the label summed over the rows whose value is in the bucket
\* [left[i], right[i])
BucketLabelSums(src) ==
    [i \in 1..Len(src.left) |->
        Int2Rat(IntSum([j \in 1..Len(col) |->
                          IF /\ RatLe(src.left[i], Int2Rat(col[j]))
                             /\ ~RatLe(src.right[i], Int2Rat(col[j]))
                          THEN col2[j] ELSE 0]))]

\* C21: with normalized=True, in static_histogram_and_label and in what the
\* dynamic chart displays, whenever the total of the bucket label sums S is
\* not zero: label[i] = S[i] / (sum of S * (edges[1] - edges[0])), the labels
\* times the bucket widths sum to 1, and no label is NaN.
C21_LabelNormalized ==
    \A src \in NormalizedSources :
        LET S == BucketLabelSums(src)
            total == RatSum(S)
            width == RatSub(src.right[1], src.left[1])
        IN  total # Int2Rat(0) =>
                /\ \A i \in 1..Len(S) :
                      /\ src.label[i] # NaNf
                      /\ src.label[i] = RatDiv(S[i], RatMul(total, width))
                /\ RatSum([i \in 1..Len(S) |->
                             RatMul(src.label[i],
                                    RatSub(src.right[i], src.left[i]))]) = Int2Rat(1)

\* C21 witness: over the column 1, 2, 3 with labels 1, 1, 0 the dynamic chart
\* was redrawn with one bucket, [1.5, 2.5], which holds the second row: the
\* label sum 1 over a bucket of width 1 is shown as 1
C21_Witness ==
    /\ IsOpen("dynamic_histogram_and_label", 1) /\ call.normalized
    /\ col = <<1, 2, 3>> /\ col2 = <<1, 1, 0>>
    /\ out.docs[1].slider = 1
    /\ Display(1).left = <<Rat(3, 2)>>
    /\ Display(1).label = <<Int2Rat(1)>>

\* C25: in the dendrogram chart, wherever the step slider stands, the last
\* callback completed, and the edge source and the step table hold the edges,
\* the threshold and the number of graphs of the slider's step.
C25_SliderInRange ==
    IsOpen("dendrogram", 1) =>
        LET D == DendrogramOf(col, col2)
            value == out.docs[1].slider
        IN  /\ out.docs[1].raised = None
            /\ value < Len(D.edges)
            /\ Display(1).edges = D.edges[value + 1]
            /\ Display(1).step = [step |-> value, thresh |-> D.threshlist[value + 1],
                                  components |-> D.graphs[value + 1]]

\* C23: in a chart built through show(), every figure attribute whose option
\* was given holds the given value (a range as Range1d of the pair), and
\* every attribute whose option was left at None is as the plotting function
\* chose it; show(plot) without options leaves them all as chosen.
C23_OnlyGivenOptionsChange ==
    (~Idle /\ call.stage = "shown" /\ out.kind = "plot") =>
        /\ DOMAIN call.figargs = FigKeys
        /\ \A k \in FigKeys :
              IF call.figargs[k] = None
              THEN out.figure[k] = FigureOf(out.fn)[k]
              ELSE out.figure[k] = Assigned(k, Some(Given(k)))
        /\ (\A k \in FigKeys : call.figargs[k] = None) =>
              out.figure = FigureOf(out.fn)

\* C23 witness: the ROC chart shown with a width and an x_range only keeps
\* its title and axis labels
C23_Witness ==
    /\ call.fn = "roc_auc" /\ call.stage = "shown" /\ out.kind = "plot"
    /\ call.figargs.width = Some(<<"given">>)
    /\ call.figargs.x_range = Some(<<"0", "10">>)
    /\ \A k \in FigKeys \ {"width", "x_range"} : call.figargs[k] = None
    /\ out.figure.width = Some(<<"given">>)
    /\ out.figure.x_range = Some(Range1d("0", "10"))
    /\ out.figure.title = Some(<<"Receiver operating characteristic">>)
    /\ out.figure.x_axis = Some(<<"False Positive Rate">>)
    /\ out.figure.y_axis = Some(<<"True Positive Rate">>)

(***************************************************************************)
(* Claims about the dynamic charts.                                        *)
(***************************************************************************)
\* C17: after the first rendering and after any slider events, the data a
\* session of dynamic_histogram displays is what static_histogram computes
\* for n_bins = slider.value, col_min = range_select.value[0] and
\* col_max = range_select.value[1], whatever the events before.
C17_DynamicEqualsStatic ==
    \A s \in Sessions :
        IsOpen("dynamic_histogram", s) =>
            Display(s) = StaticHistogramSource(col, out.docs[s].slider,
                                               Some(out.docs[s].range[2]),
                                               Some(out.docs[s].range[1]))

\* C18: when the recomputation an event of dynamic_timeseries triggers
\* raises, the exception is printed and the source keeps the data it held;
\* when it succeeds, whatever failed before, the source holds the data
\* computed from the widgets' values.
C18_FailedRecomputationKeepsData ==
    [][(IsOpen("dynamic_timeseries", 1) /\ out'.kind = "app" /\ out'.docs[1].open) =>
          LET result == TimeCallbackResult(col, col2, out'.docs[1])
          IN  IF result.kind = "error"
              THEN /\ out'.sources = out.sources
                   /\ out'.docs[1].printed = Some(result.error)
                   /\ out'.docs[1].label = out.docs[1].label
              ELSE /\ out'.sources[out'.docs[1].source] = result
                   /\ out'.docs[1].printed = None]_vars

\* C18 witness: over timestamps 1 and 3 the count in two buckets was
\* displayed, the range was then narrowed to hold no timestamp and the bins
\* slider moved to 1: both recomputations failed, and the two buckets of the
\* last success are still displayed
C18_Witness ==
    /\ IsOpen("dynamic_timeseries", 1)
    /\ col = <<1, 3>>
    /\ out.docs[1].range = <<2, 2>>
    /\ out.docs[1].slider = 1
    /\ out.docs[1].printed = Some("ValueError")
    /\ out.docs[1].label = "count"
    /\ Display(1) = StaticTimeseriesSource(col, col2, Some(3), Some(1), 2, "count")

\* C16: two sessions of a dynamic chart have sources of their own; a step
\* that changes what one session shows (its opening, or an event of one of its
\* widgets) leaves the widgets and the displayed data of the other as they
\* were, and the data the session then displays is computed from its own
\* widgets' values (for dynamic_timeseries: or is its own earlier data, when
\* the computation raised).
C16_SessionsIndependent ==
    [][(out.kind = "app" /\ out'.kind = "app") =>
          \A s \in Sessions :
              View(s)' # View(s) =>
                  /\ \A t \in Sessions \ {s} :
                        /\ View(t)' = View(t)
                        /\ out'.docs[t].open => out'.docs[t].source # out'.docs[s].source
                  /\ LET doc == out'.docs[s]
                         shown == out'.sources[doc.source]
                     IN  CASE out.fn = "dynamic_histogram" ->
                                  IF out.docs[s].open
                                  THEN shown = HistCallbackData(col, doc.slider, doc.range)
                                  ELSE shown = StaticHistogramSource(col, DefaultBins, None, None)
                           [] out.fn = "dynamic_piechart" ->
                                  shown \in PieCallbackData(col, doc)
                           [] out.fn = "dynamic_timeseries" ->
                                  \/ shown = TimeCallbackResult(col, col2, doc)
                                  \/ /\ out.docs[s].open
                                     /\ TimeCallbackResult(col, col2, doc).kind = "error"
                                     /\ shown = Display(s)]_vars

\* C16 witness: both sessions of a pie are open over the same column with
\* different widget values, and display different data
C16_Witness ==
    /\ IsOpen("dynamic_piechart", 1) /\ IsOpen("dynamic_piechart", 2)
    /\ col = <<2, 1, 1>>
    /\ out.docs[1].merge = 1 /\ out.docs[2].merge = 2
    /\ out.docs[1].active = {} /\ out.docs[2].active = {0}
    /\ out.docs[1].source # out.docs[2].source
    /\ Display(1) # Display(2)

\* C15: no call of a helper or a chart and no callback of a dynamic chart
\* changes an input column: length, values and order stay as they were.
C15_InputsReadOnly == [][col' = col /\ col2' = col2 /\ col3' = col3]_vars

\* C15 witness: over an unsorted column a pie was opened in two sessions and
\* redrawn unsorted with a value dropped; the column is as it was
C15_Witness ==
    /\ col = <<2, 1, 1>>
    /\ IsOpen("dynamic_piechart", 1) /\ IsOpen("dynamic_piechart", 2)
    /\ out.docs[1].drop = 1
    /\ out.docs[2].active = {}
    /\ Len(out.sources) = 2

(***************************************************************************)
(* Claims about the palette.                                               *)
(***************************************************************************)
\* C24: for any number of distinct labels, static_scatterplot_and_label
\* builds its source without an index error, and every row has a color at
\* one of the positions 0..19 of the palette.
C24_PaletteInBounds ==
    call.fn = "static_scatterplot_and_label" =>
        /\ out.kind = "source"
        /\ \A j \in 1..Len(out.rows) : out.rows[j].color \in 0..(PaletteSize - 1)

====
